---- MODULE Spec2Model ----
(***************************************************************************)
(* Model of the Lab-Automation command layer (commands/command.py) and of  *)
(* the HeatingStage driver (devices/heating_stage.py).                     *)
(*                                                                         *)
(* Every public method is one action: the action computes the whole call   *)
(* (all nested calls included) and leaves a record of it in `call`.        *)
(***************************************************************************)
EXTENDS Integers, Sequences, FiniteSets, TLC

VARIABLES
    ser_is_open,      \* HeatingStage.ser.is_open
    is_initialized,   \* HeatingStage._is_initialized
    was_successful,   \* Command._was_successful, per command object
    result_message,   \* Command._result_message, per command object
    has_command_list, \* whether a composite has the attribute _command_list
    command_list,     \* CompositeCommand._command_list, per composite
    phase,            \* per command: "new", "called" (execute was entered), "returned"
    call              \* the last completed public call and what it did

devVars == <<ser_is_open, is_initialized>>
cmdVars == <<was_successful, result_message, has_command_list, command_list, phase>>
vars == <<ser_is_open, is_initialized, was_successful, result_message,
          has_command_list, command_list, phase, call>>

(***************************************************************************)
(* Values.  Python values of different types are kept apart by a tag.      *)
(***************************************************************************)
Msg(s)   == [k |-> "msg", s |-> s]      \* a str built by the driver
Text(t)  == [k |-> "text", t |-> t]     \* a str received from the device
Float(n) == [k |-> "float", n |-> n]    \* a float, in tenths
Bool(b)  == [k |-> "bool", b |-> b]     \* a bool used as a value

Pair(ok, val) == [ok |-> ok, val |-> val]

\* Time, in seconds.
DefaultAckTimeout  == 1
DefaultSuccTimeout == 1
SetTempAckTimeout  == 1
HeatingTimeout     == 600

\* Arrival times of a token after the command line was written: at once,
\* after the short timeouts but within the heating timeout, after all of them.
Delays == {0, 5, 601}

\* Texts, as sequences of characters.
Payloads ==
    { <<"T", "=", "2", "6", ".", "3">>,
      <<"T", "=", "E", "R", "R">>,
      <<"p", "i", "d", "=", "O", "N">>,
      <<"O", "N">> }

\* What the firmware answers to one command line: a first token and when it
\* arrives, then a completion token, when it arrives after the first, and its
\* payload.  Answers that differ only in what comes after a token nobody waits
\* for are kept once: a first token that is late under every acknowledgment
\* timeout or is no acknowledgment, and a completion later than every
\* completion timeout, are followed by NoPayload.
NoPayload == <<"O", "N">>

Responses ==
    {r \in [ack : {"ack", "nak"}, ackDelay : {0, 5},
            done : {"succ", "fail"}, doneDelay : Delays, payload : Payloads] :
        /\ r.ack = "nak" => r.ackDelay = 0
        /\ (r.ack = "nak" \/ r.ackDelay = 5) =>
               r.done = "succ" /\ r.doneDelay = 0 /\ r.payload = NoPayload
        /\ r.doneDelay = 601 => r.done = "succ" /\ r.payload = NoPayload}

\* Target temperatures, in tenths of a degree.
Temps == {260, 300}

Line(verb, arg) == [verb |-> verb, arg |-> arg]
NoArg == <<>>

(***************************************************************************)
(* Transport handshake and payload parsing (ArduinoSerialDevice).          *)
(***************************************************************************)
\* One handshake: the timeouts it ran with, what the firmware answered, the
\* reads it made and what it returned.
Shake(ack_timeout, succ_timeout, resp, events, ret) ==
    [ack_timeout |-> ack_timeout, succ_timeout |-> succ_timeout,
     resp |-> resp, events |-> events, ret |-> ret]

\* A handshake that takes any first token for the acknowledgment.
check_ack_succ_anyack(ack_timeout, succ_timeout, resp) ==
    IF resp.ackDelay > ack_timeout
    THEN Shake(ack_timeout, succ_timeout, resp, <<"wait_ack", "ack_timeout">>,
               Pair(FALSE, Msg("No acknowledgment received from device.")))
    ELSE IF resp.doneDelay > succ_timeout
    THEN Shake(ack_timeout, succ_timeout, resp,
               <<"wait_ack", "ack", "wait_done", "done_timeout">>,
               Pair(FALSE, Msg("No completion message received from device.")))
    ELSE IF resp.done # "succ"
    THEN Shake(ack_timeout, succ_timeout, resp,
               <<"wait_ack", "ack", "wait_done", "fail">>,
               Pair(FALSE, Text(resp.payload)))
    ELSE Shake(ack_timeout, succ_timeout, resp,
               <<"wait_ack", "ack", "wait_done", "succ">>,
               Pair(TRUE, Text(resp.payload)))

check_ack_succ(ack_timeout, succ_timeout, resp) ==
    IF resp.ackDelay > ack_timeout
    THEN Shake(ack_timeout, succ_timeout, resp, <<"wait_ack", "ack_timeout">>,
               Pair(FALSE, Msg("No acknowledgment received from device.")))
    ELSE IF resp.ack # "ack"
    THEN Shake(ack_timeout, succ_timeout, resp, <<"wait_ack", "ack_invalid">>,
               Pair(FALSE, Msg("Invalid acknowledgment received from device.")))
    ELSE IF resp.doneDelay > succ_timeout
    THEN Shake(ack_timeout, succ_timeout, resp,
               <<"wait_ack", "ack", "wait_done", "done_timeout">>,
               Pair(FALSE, Msg("No completion message received from device.")))
    ELSE IF resp.done # "succ"
    THEN Shake(ack_timeout, succ_timeout, resp,
               <<"wait_ack", "ack", "wait_done", "fail">>,
               Pair(FALSE, Text(resp.payload)))
    ELSE Shake(ack_timeout, succ_timeout, resp,
               <<"wait_ack", "ack", "wait_done", "succ">>,
               Pair(TRUE, Text(resp.payload)))

\* Index of the first "=" of t, 0 when there is none.
EqPos(t) ==
    IF \E i \in 1..Len(t) : t[i] = "="
    THEN CHOOSE i \in 1..Len(t) : t[i] = "=" /\ \A j \in 1..(i - 1) : t[j] # "="
    ELSE 0

parse_equal_sign(t) ==
    IF EqPos(t) = 0 THEN <<FALSE, <<>>>>
    ELSE <<TRUE, SubSeq(t, EqPos(t) + 1, Len(t))>>

(***************************************************************************)
(* float(str), for decimal literals with at most one fractional digit.     *)
(***************************************************************************)
Digits == {"0", "1", "2", "3", "4", "5", "6", "7", "8", "9"}

DigitVal(c) == CHOOSE n \in 0..9 : <<"0", "1", "2", "3", "4", "5", "6", "7", "8", "9">>[n + 1] = c

DotPos(t) == IF \E i \in 1..Len(t) : t[i] = "."
             THEN CHOOSE i \in 1..Len(t) : t[i] = "." ELSE 0

\* float() accepts t: digits with at most one ".", and at least one digit.
IsFloat(t) ==
    /\ \A i \in 1..Len(t) : t[i] \in Digits \cup {"."}
    /\ Cardinality({i \in 1..Len(t) : t[i] = "."}) <= 1
    /\ \E i \in 1..Len(t) : t[i] \in Digits

RECURSIVE IntOf(_)
IntOf(t) == IF t = <<>> THEN 0
            ELSE 10 * IntOf(SubSeq(t, 1, Len(t) - 1)) + DigitVal(t[Len(t)])

\* The value of float(t) in tenths.
FloatOf(t) ==
    IF DotPos(t) = 0 THEN 10 * IntOf(t)
    ELSE 10 * IntOf(SubSeq(t, 1, DotPos(t) - 1))
         + (IF DotPos(t) < Len(t) THEN DigitVal(t[DotPos(t) + 1]) ELSE 0)

(***************************************************************************)
(* HeatingStage: the operational methods.  Each returns what the call did: *)
(* the pair it returned (or the error it raised), the lines it wrote and   *)
(* the handshakes it ran.                                                  *)
(***************************************************************************)
Done(ret, written, shakes) ==
    [raised |-> "", ret |-> ret, written |-> written, shakes |-> shakes]

Raised(err, written, shakes) ==
    [raised |-> err, ret |-> Pair(FALSE, Msg("")), written |-> written, shakes |-> shakes]

NotOpenMsg == Msg("Serial port COM3 is not open. ")
NotInitMsg == Msg("Heating stage is not initialized.")

set_settemp(open, init, temp, resp) ==
    IF ~open THEN Done(Pair(FALSE, NotOpenMsg), <<>>, <<>>)
    ELSE IF ~init THEN Done(Pair(FALSE, NotInitMsg), <<>>, <<>>)
    ELSE LET h == check_ack_succ(DefaultAckTimeout, DefaultSuccTimeout, resp)
         IN  Done(h.ret, <<Line(">set Ts", temp)>>, <<h>>)

\* set_temp without the initialization gate.
set_temp_ungated(open, init, temp, resp) ==
    IF ~open THEN Done(Pair(FALSE, NotOpenMsg), <<>>, <<>>)
    ELSE LET h == check_ack_succ(SetTempAckTimeout, HeatingTimeout, resp)
         IN  Done(h.ret, <<Line(">set T", temp)>>, <<h>>)

set_temp(open, init, temp, resp) ==
    IF ~open THEN Done(Pair(FALSE, NotOpenMsg), <<>>, <<>>)
    ELSE IF ~init THEN Done(Pair(FALSE, NotInitMsg), <<>>, <<>>)
    ELSE LET h == check_ack_succ(SetTempAckTimeout, HeatingTimeout, resp)
         IN  Done(h.ret, <<Line(">set T", temp)>>, <<h>>)

pid_on(open, init, resp) ==
    IF ~open THEN Done(Pair(FALSE, NotOpenMsg), <<>>, <<>>)
    ELSE IF ~init THEN Done(Pair(FALSE, NotInitMsg), <<>>, <<>>)
    ELSE LET h == check_ack_succ(DefaultAckTimeout, DefaultSuccTimeout, resp)
         IN  Done(h.ret, <<Line(">pidon", NoArg)>>, <<h>>)

\* pid_off gated on the initialization flag like the other commands.
pid_off_gated(open, resp) ==
    IF ~open THEN Done(Pair(FALSE, NotOpenMsg), <<>>, <<>>)
    ELSE IF ~is_initialized THEN Done(Pair(FALSE, NotInitMsg), <<>>, <<>>)
    ELSE LET h == check_ack_succ(DefaultAckTimeout, DefaultSuccTimeout, resp)
         IN  Done(h.ret, <<Line(">pidoff", NoArg)>>, <<h>>)

pid_off(open, resp) ==
    IF ~open THEN Done(Pair(FALSE, NotOpenMsg), <<>>, <<>>)
    ELSE LET h == check_ack_succ(DefaultAckTimeout, DefaultSuccTimeout, resp)
         IN  Done(h.ret, <<Line(">pidoff", NoArg)>>, <<h>>)

\* is_pid_on without the check of the port.
is_pid_on_unchecked(open, resp) ==
    LET h == check_ack_succ(DefaultAckTimeout, DefaultSuccTimeout, resp)
        w == <<Line(">pr pid", NoArg)>>
        p == parse_equal_sign(h.ret.val.t)
    IN  IF ~h.ret.ok THEN Done(h.ret, w, <<h>>)
        ELSE IF ~p[1]
        THEN Done(Pair(FALSE, Msg("Message from device did not contain PID state.")),
                  w, <<h>>)
        ELSE Done(Pair(TRUE, Bool(p[2] = <<"O", "N">>)), w, <<h>>)

is_pid_on(open, resp) ==
    IF ~open THEN Done(Pair(FALSE, NotOpenMsg), <<>>, <<>>)
    ELSE LET h == check_ack_succ(DefaultAckTimeout, DefaultSuccTimeout, resp)
             w == <<Line(">pr pid", NoArg)>>
             p == parse_equal_sign(h.ret.val.t)
         IN  IF ~h.ret.ok THEN Done(h.ret, w, <<h>>)
             ELSE IF ~p[1]
             THEN Done(Pair(FALSE, Msg("Message from device did not contain PID state.")),
                       w, <<h>>)
             ELSE Done(Pair(TRUE, Bool(p[2] = <<"O", "N">>)), w, <<h>>)

\* temperature without the test that the payload holds a value.
temperature_nofieldcheck(open, resp) ==
    IF ~open THEN Done(Pair(FALSE, NotOpenMsg), <<>>, <<>>)
    ELSE LET h == check_ack_succ(DefaultAckTimeout, DefaultSuccTimeout, resp)
             w == <<Line(">pr T", NoArg)>>
             p == parse_equal_sign(h.ret.val.t)
         IN  IF ~h.ret.ok THEN Done(h.ret, w, <<h>>)
             ELSE IF IsFloat(p[2]) THEN Done(Pair(TRUE, Float(FloatOf(p[2]))), w, <<h>>)
             ELSE Done(Pair(TRUE, Float(0)), w, <<h>>)

temperature(open, resp) ==
    IF ~open THEN Done(Pair(FALSE, NotOpenMsg), <<>>, <<>>)
    ELSE LET h == check_ack_succ(DefaultAckTimeout, DefaultSuccTimeout, resp)
             w == <<Line(">pr T", NoArg)>>
             p == parse_equal_sign(h.ret.val.t)
         IN  IF ~h.ret.ok THEN Done(h.ret, w, <<h>>)
             ELSE IF ~p[1]
             THEN Done(Pair(FALSE, Msg("Message from device did not contain temperature.")),
                       w, <<h>>)
             ELSE IF IsFloat(p[2]) THEN Done(Pair(TRUE, Float(FloatOf(p[2]))), w, <<h>>)
             ELSE Raised("ValueError", w, <<h>>)

(***************************************************************************)
(* HeatingStage: initialize and deinitialize.  `init` is _is_initialized   *)
(* when the call ends.                                                     *)
(***************************************************************************)
WithInit(init, o) ==
    [init |-> init, raised |-> o.raised, ret |-> o.ret,
     written |-> o.written, shakes |-> o.shakes]

\* initialize without the rollback of the flag when pid_on fails.
initialize_norollback(open, r1, r2) ==
    LET s == set_settemp(open, TRUE, 260, r1)
        p == pid_on(open, TRUE, r2)
    IN  IF ~s.ret.ok THEN WithInit(FALSE, s)
        ELSE IF ~p.ret.ok
        THEN WithInit(TRUE, Done(p.ret, s.written \o p.written, s.shakes \o p.shakes))
        ELSE WithInit(TRUE,
                 Done(Pair(TRUE, Msg("Heating stage successfully initialized by setting to 26 C and turning PID ON.")),
                      s.written \o p.written, s.shakes \o p.shakes))

initialize(open, r1, r2) ==
    LET s == set_settemp(open, TRUE, 260, r1)
        p == pid_on(open, TRUE, r2)
    IN  IF ~s.ret.ok THEN WithInit(FALSE, s)
        ELSE IF ~p.ret.ok
        THEN WithInit(FALSE, Done(p.ret, s.written \o p.written, s.shakes \o p.shakes))
        ELSE WithInit(TRUE,
                 Done(Pair(TRUE, Msg("Heating stage successfully initialized by setting to 26 C and turning PID ON.")),
                      s.written \o p.written, s.shakes \o p.shakes))

\* deinitialize going on to pid_off after a failed set_settemp.
deinitialize_noskip(open, reset_init_flag, r1, r2) ==
    LET s == set_settemp(open, TRUE, 240, r1)
        p == pid_off(open, r2)
    IN  IF ~p.ret.ok \/ ~s.ret.ok
        THEN WithInit(FALSE, Done(IF ~s.ret.ok THEN s.ret ELSE p.ret,
                                  s.written \o p.written, s.shakes \o p.shakes))
        ELSE WithInit(~reset_init_flag,
                 Done(Pair(TRUE, Msg("Heating stage successfully deinitialized by setting to 24 C and turning PID OFF.")),
                      s.written \o p.written, s.shakes \o p.shakes))

\* deinitialize without the reset of the flag when pid_off fails.
deinitialize_noreset(open, reset_init_flag, r1, r2) ==
    LET s == set_settemp(open, TRUE, 240, r1)
        p == pid_off(open, r2)
    IN  IF ~s.ret.ok THEN WithInit(FALSE, s)
        ELSE IF ~p.ret.ok
        THEN WithInit(TRUE, Done(p.ret, s.written \o p.written, s.shakes \o p.shakes))
        ELSE WithInit(~reset_init_flag,
                 Done(Pair(TRUE, Msg("Heating stage successfully deinitialized by setting to 24 C and turning PID OFF.")),
                      s.written \o p.written, s.shakes \o p.shakes))

deinitialize(open, reset_init_flag, r1, r2) ==
    LET s == set_settemp(open, TRUE, 240, r1)
        p == pid_off(open, r2)
    IN  IF ~s.ret.ok THEN WithInit(FALSE, s)
        ELSE IF ~p.ret.ok
        THEN WithInit(FALSE, Done(p.ret, s.written \o p.written, s.shakes \o p.shakes))
        ELSE WithInit(~reset_init_flag,
                 Done(Pair(TRUE, Msg("Heating stage successfully deinitialized by setting to 24 C and turning PID OFF.")),
                      s.written \o p.written, s.shakes \o p.shakes))

(***************************************************************************)
(* The record of a call.                                                   *)
(***************************************************************************)
NoCall ==
    [op |-> "none", obj |-> "none", arg |-> NoArg, flag |-> FALSE,
     pre_open |-> FALSE, pre_init |-> FALSE, raised |-> "",
     ret |-> Pair(FALSE, Msg("")), written |-> <<>>, shakes |-> <<>>,
     log |-> <<>>, rets |-> <<>>, ran |-> <<>>,
     pre_list |-> <<>>, input |-> <<>>, name |-> <<>>, stack |-> <<>>]

DeviceCall(op, arg, flag, o) ==
    [NoCall EXCEPT !.op = op, !.obj = "HeatingStage", !.arg = arg, !.flag = flag,
                   !.pre_open = ser_is_open, !.pre_init = is_initialized,
                   !.raised = o.raised, !.ret = o.ret,
                   !.written = o.written, !.shakes = o.shakes]

(***************************************************************************)
(* HeatingStage: one action per public method.                             *)
(***************************************************************************)
\* The answers to the second line of a two-step call: any, when the call
\* writes a second line (nwritten = 2); otherwise none is read.
SecondResponses(nwritten, r1) == IF nwritten = 2 THEN Responses ELSE {r1}

Initialize ==
    \E r1 \in Responses :
    \E r2 \in SecondResponses(Len(initialize(ser_is_open, r1, r1).written), r1) :
    \E o \in {initialize(ser_is_open, r1, r2)} :
            /\ is_initialized' = o.init
            /\ call' = DeviceCall("initialize", NoArg, FALSE, o)
            /\ UNCHANGED <<ser_is_open, cmdVars>>

Deinitialize ==
    \E reset_init_flag \in BOOLEAN, r1 \in Responses :
    \E r2 \in SecondResponses(Len(deinitialize(ser_is_open, reset_init_flag, r1, r1).written), r1) :
    \E o \in {deinitialize(ser_is_open, reset_init_flag, r1, r2)} :
            /\ is_initialized' = o.init
            /\ call' = DeviceCall("deinitialize", NoArg, reset_init_flag, o)
            /\ UNCHANGED <<ser_is_open, cmdVars>>

SetSettemp ==
    \E temp \in Temps, r \in Responses :
        \E o \in {set_settemp(ser_is_open, is_initialized, temp, r)} :
        /\ call' = DeviceCall("set_settemp", temp, FALSE, o)
        /\ UNCHANGED <<devVars, cmdVars>>

SetTemp ==
    \E temp \in Temps, r \in Responses :
        \E o \in {set_temp(ser_is_open, is_initialized, temp, r)} :
        /\ call' = DeviceCall("set_temp", temp, FALSE, o)
        /\ UNCHANGED <<devVars, cmdVars>>

PidOn ==
    \E r \in Responses :
        \E o \in {pid_on(ser_is_open, is_initialized, r)} :
        /\ call' = DeviceCall("pid_on", NoArg, FALSE, o)
        /\ UNCHANGED <<devVars, cmdVars>>

PidOff ==
    \E r \in Responses :
        \E o \in {pid_off(ser_is_open, r)} :
        /\ call' = DeviceCall("pid_off", NoArg, FALSE, o)
        /\ UNCHANGED <<devVars, cmdVars>>

IsPidOn ==
    \E r \in Responses :
        \E o \in {is_pid_on(ser_is_open, r)} :
        /\ call' = DeviceCall("is_pid_on", NoArg, FALSE, o)
        /\ UNCHANGED <<devVars, cmdVars>>

Temperature ==
    \E r \in Responses :
        \E o \in {temperature(ser_is_open, r)} :
        /\ call' = DeviceCall("temperature", NoArg, FALSE, o)
        /\ UNCHANGED <<devVars, cmdVars>>

\* The serial port, opened and closed by its owner.
OpenPort ==
    /\ ~ser_is_open
    /\ ser_is_open' = TRUE
    /\ call' = [NoCall EXCEPT !.op = "ser.open", !.obj = "Serial",
                              !.pre_open = ser_is_open, !.pre_init = is_initialized]
    /\ UNCHANGED <<is_initialized, cmdVars>>

ClosePort ==
    /\ ser_is_open
    /\ ser_is_open' = FALSE
    /\ call' = [NoCall EXCEPT !.op = "ser.close", !.obj = "Serial",
                              !.pre_open = ser_is_open, !.pre_init = is_initialized]
    /\ UNCHANGED <<is_initialized, cmdVars>>

DevNext ==
    \/ OpenPort
    \/ ClosePort
    \/ Initialize
    \/ Deinitialize
    \/ SetSettemp
    \/ SetTemp
    \/ PidOn
    \/ PidOff
    \/ IsPidOn
    \/ Temperature

(***************************************************************************)
(* Commands.  Two concrete commands and two composites.  K1 may hold L1    *)
(* and K2, K2 may hold L2: containment is acyclic and at most two deep.    *)
(***************************************************************************)
Leaves     == {"L1", "L2"}
Composites == {"K1", "K2"}
Commands   == Leaves \cup Composites

\* Longest sub-command list the model builds.
MaxList == 2

CanContain(k, c) ==
    \/ k = "K1" /\ c \in {"L1", "K2"}
    \/ k = "K2" /\ c = "L2"

\* Python's None, True and False as values of was_successful / result_message.
PyNone  == "None"
PyTrue  == "True"
PyFalse == "False"

\* Python's `not v`.
Not(v) == v \in {PyNone, PyFalse}

\* What the receivers of the concrete commands report.
OkMsg    == [l \in Leaves |-> IF l = "L1" THEN "L1 done" ELSE "L2 done"]
FailMsgs == {"overheat"}

\* Most concrete-command executions in one execute() call.
MaxRuns == MaxList * MaxList

\* The receivers' behaviour during one execute() call: which execution of a
\* concrete command (counted over the whole call) fails, 0 for none.  One
\* failure ends the call, so there is never a second one.
Oracles == [failAt : 0..MaxRuns, failMsg : FailMsgs]

\* A concrete command's execute(): one receiver operation, its (bool, message)
\* copied into the command.
ExecLeaf(l, st, orc) ==
    LET fails == orc.failAt = st.n + 1
    IN  [st EXCEPT !.was[l] = IF fails THEN PyFalse ELSE PyTrue,
                   !.msg[l] = IF fails THEN orc.failMsg ELSE OkMsg[l],
                   !.n = st.n + 1,
                   !.ran = Append(@, l),
                   !.entered = @ \cup {l},
                   !.left = @ \cup {l}]

RECURSIVE ExecCmd(_, _, _)
RECURSIVE ExecLoop(_, _, _, _, _)

\* One line of the record of a loop: invocation id of composite k visited list
\* position i, holding c, and saw (was, msg) on c after c.execute().
LogEntry(k, id, i, c, s1) ==
    [inv |-> id, comp |-> k, pos |-> i, cmd |-> c, was |-> s1.was[c], msg |-> s1.msg[c]]

\* The composite takes over the flag and the message of sub-command c.
CopyFrom(k, id, i, c, s1) ==
    [s1 EXCEPT !.was[k] = s1.was[c],
               !.msg[k] = s1.msg[c],
               !.log = Append(@, LogEntry(k, id, i, c, s1))]

\* The loop going on after a sub-command that was not successful.
ExecLoop_nostop(k, id, i, st, orc) ==
    IF i > Len(command_list[k]) THEN st
    ELSE LET c  == command_list[k][i]
             s1 == ExecCmd(c, st, orc)
         IN  IF s1.raised # "" THEN s1
             ELSE ExecLoop(k, id, i + 1, CopyFrom(k, id, i, c, s1), orc)

\* The loop without the update of the composite after a successful sub-command.
ExecLoop_nocopy(k, id, i, st, orc) ==
    IF i > Len(command_list[k]) THEN st
    ELSE LET c  == command_list[k][i]
             s1 == ExecCmd(c, st, orc)
         IN  IF s1.raised # "" THEN s1
             ELSE IF Not(s1.was[c]) THEN CopyFrom(k, id, i, c, s1)
             ELSE ExecLoop(k, id, i + 1,
                           [s1 EXCEPT !.log = Append(@, LogEntry(k, id, i, c, s1))], orc)

\* The loop returning on a failure without taking over the sub-command's state.
ExecLoop_failkeeps(k, id, i, st, orc) ==
    IF i > Len(command_list[k]) THEN st
    ELSE LET c  == command_list[k][i]
             s1 == ExecCmd(c, st, orc)
         IN  IF s1.raised # "" THEN s1
             ELSE IF Not(s1.was[c])
             THEN [s1 EXCEPT !.log = Append(@, LogEntry(k, id, i, c, s1))]
             ELSE ExecLoop(k, id, i + 1, CopyFrom(k, id, i, c, s1), orc)

\* The for loop of CompositeCommand.execute, from list position i on, in the
\* invocation numbered id.
ExecLoop(k, id, i, st, orc) ==
    IF i > Len(command_list[k]) THEN st
    ELSE LET c  == command_list[k][i]
             s1 == ExecCmd(c, st, orc)
         IN  IF s1.raised # "" THEN s1
             ELSE IF Not(s1.was[c]) THEN CopyFrom(k, id, i, c, s1)
             ELSE ExecLoop(k, id, i + 1, CopyFrom(k, id, i, c, s1), orc)

\* command.execute() for any command.
ExecCmd(c, st, orc) ==
    IF c \in Leaves THEN ExecLeaf(c, st, orc)
    ELSE IF ~has_command_list[c]
    THEN [st EXCEPT !.raised = "AttributeError", !.entered = @ \cup {c}]
    ELSE LET id == st.inv + 1
             s1 == ExecLoop(c, id, 1,
                            [st EXCEPT !.inv = id, !.entered = @ \cup {c}], orc)
         IN  IF s1.raised # "" THEN s1
             ELSE [s1 EXCEPT !.left = @ \cup {c},
                             !.rets = Append(@, [inv |-> id, comp |-> c,
                                                 was |-> s1.was[c], msg |-> s1.msg[c]])]

\* A name is a str; it is kept as the sequence of the pieces the getters
\* concatenate: the class name, one piece per " key=value" fragment, the tag
\* of a composite and one piece per " <sub-command name>;" fragment.
ClassPiece(cls)        == [k |-> "class", cls |-> cls]
ParamPiece(key, value) == [k |-> "param", key |-> key, value |-> value]
TagPiece               == [k |-> "tag", tag |-> "CompositeCommand:"]
SubPiece(sub)          == [k |-> "sub", sub |-> sub]

\* isinstance(v, str)
IsStr(v) == v.k \in {"msg", "text"}

\* The loop of Command.name over _params, the key 'delay' skipped; params is
\* the dictionary without that key, in insertion order.
RECURSIVE ParamPieces(_)
ParamPieces(params) ==
    IF params = <<>> THEN <<>>
    ELSE <<ParamPiece(Head(params).key, Head(params).value)>> \o ParamPieces(Tail(params))

\* Command.name with the delay shown whenever it is not zero.
Command_name_nonzero(cls, params, delay) ==
    <<ClassPiece(cls)>> \o ParamPieces(params)
        \o (IF IsStr(delay) THEN <<ParamPiece("delay", delay)>>
            ELSE IF delay.n # 0 THEN <<ParamPiece("delay", delay)>>
            ELSE <<>>)

\* Command.name
Command_name(cls, params, delay) ==
    <<ClassPiece(cls)>> \o ParamPieces(params)
        \o (IF IsStr(delay) THEN <<ParamPiece("delay", delay)>>
            ELSE IF delay.n > 0 THEN <<ParamPiece("delay", delay)>>
            ELSE <<>>)

\* The concrete commands L1 and L2 as constructed: class, _params without
\* 'delay', and the delay.
LeafInput ==
    [l \in Leaves |->
        IF l = "L1"
        THEN [cls |-> "L1", params |-> <<[key |-> "receiver_name", value |-> Msg("stage")]>>,
              delay |-> Float(0)]
        ELSE [cls |-> "L2", params |-> <<[key |-> "receiver_name", value |-> Msg("stage")]>>,
              delay |-> Float(5)]]

\* command.name for any command: [raised, name].
RECURSIVE NameOf(_)
RECURSIVE SubNames(_, _)

\* The loop of CompositeCommand.name, from list position i on.
SubNames(k, i) ==
    IF i > Len(command_list[k]) THEN [raised |-> "", name |-> <<>>]
    ELSE LET n == NameOf(command_list[k][i])
             r == SubNames(k, i + 1)
         IN  IF n.raised # "" THEN n
             ELSE IF r.raised # "" THEN r
             ELSE [raised |-> "", name |-> <<SubPiece(n.name)>> \o r.name]

NameOf(c) ==
    IF c \in Leaves
    THEN [raised |-> "",
          name |-> Command_name(LeafInput[c].cls, LeafInput[c].params, LeafInput[c].delay)]
    ELSE IF ~has_command_list[c] THEN [raised |-> "AttributeError", name |-> <<>>]
    ELSE LET r == SubNames(c, 1)
         IN  IF r.raised # "" THEN r
             ELSE [raised |-> "", name |-> <<TagPiece>> \o r.name]

\* list.insert(index, x)
PyInsert(list, index, x) ==
    LET i0 == IF index < 0 THEN index + Len(list) ELSE index
        i  == IF i0 < 0 THEN 0 ELSE IF i0 > Len(list) THEN Len(list) ELSE i0
    IN  SubSeq(list, 1, i) \o <<x>> \o SubSeq(list, i + 1, Len(list))

\* del list[index]
PyDelOk(list, index) == -Len(list) <= index /\ index <= Len(list) - 1

PyDel(list, index) ==
    LET i == IF index < 0 THEN index + Len(list) ELSE index
    IN  SubSeq(list, 1, i) \o SubSeq(list, i + 2, Len(list))

add_command(list, command, hasIndex, index) ==
    IF ~hasIndex THEN Append(list, command) ELSE PyInsert(list, index, command)

\* remove_command taking the first element when no index is given.
remove_command_first(list, hasIndex, index) ==
    LET idx == IF ~hasIndex THEN 0 ELSE index
    IN  IF PyDelOk(list, idx) THEN [raised |-> "", list |-> PyDel(list, idx)]
        ELSE [raised |-> "IndexError", list |-> list]

\* The list after remove_command, or the error it raises.
remove_command(list, hasIndex, index) ==
    LET idx == IF ~hasIndex THEN -1 ELSE index
    IN  IF PyDelOk(list, idx) THEN [raised |-> "", list |-> PyDel(list, idx)]
        ELSE [raised |-> "IndexError", list |-> list]

Indices == (-(MaxList + 1))..(MaxList + 1)

CommandCall(op, obj, raised) ==
    [NoCall EXCEPT !.op = op, !.obj = obj, !.raised = raised,
                   !.pre_open = ser_is_open, !.pre_init = is_initialized]

AddCommand ==
    \E k \in Composites, c \in Commands, hasIndex \in BOOLEAN, index \in Indices :
        /\ CanContain(k, c)
        /\ hasIndex \/ index = 0
        /\ has_command_list[k] => Len(command_list[k]) < MaxList
        /\ IF has_command_list[k]
           THEN /\ command_list' =
                       [command_list EXCEPT ![k] = add_command(@, c, hasIndex, index)]
                /\ call' = CommandCall("add_command", k, "")
           ELSE /\ command_list' = command_list
                /\ call' = CommandCall("add_command", k, "AttributeError")
        /\ UNCHANGED <<devVars, was_successful, result_message, has_command_list, phase>>

RemoveCommand ==
    \E k \in Composites, hasIndex \in BOOLEAN, index \in Indices :
        /\ hasIndex \/ index = 0
        /\ IF has_command_list[k]
           THEN \E o \in {remove_command(command_list[k], hasIndex, index)} :
                    /\ command_list' = [command_list EXCEPT ![k] = o.list]
                    /\ call' = [CommandCall("remove_command", k, o.raised) EXCEPT
                                    !.flag = hasIndex,
                                    !.arg = IF hasIndex THEN index ELSE NoArg,
                                    !.pre_list = command_list[k]]
           ELSE /\ command_list' = command_list
                /\ call' = CommandCall("remove_command", k, "AttributeError")
        /\ UNCHANGED <<devVars, was_successful, result_message, has_command_list, phase>>

Execute ==
    \E c \in Commands, orc \in Oracles :
    \E s \in {ExecCmd(c, [was |-> was_successful, msg |-> result_message,
                             n |-> 0, inv |-> 0, raised |-> "", ran |-> <<>>,
                             log |-> <<>>, rets |-> <<>>,
                             entered |-> {}, left |-> {}], orc)} :
            /\ was_successful' = s.was
            /\ result_message' = s.msg
            /\ phase' = [x \in Commands |->
                            IF x \in s.left THEN "returned"
                            ELSE IF x \in s.entered /\ phase[x] = "new" THEN "called"
                            ELSE phase[x]]
            /\ call' = [CommandCall("execute", c, s.raised) EXCEPT
                            !.log = s.log, !.rets = s.rets, !.ran = s.ran]
            /\ UNCHANGED <<devVars, has_command_list, command_list>>

\* Reading the name property of a command.
GetName ==
    \E c \in Commands :
    \E r \in {NameOf(c)} :
        /\ call' = [CommandCall("name", c, r.raised) EXCEPT !.name = r.name]
        /\ UNCHANGED <<devVars, cmdVars>>

CmdNext ==
    \/ AddCommand
    \/ RemoveCommand
    \/ Execute
    \/ GetName

(***************************************************************************)
(* execute() step by step.  call.stack holds the execute() invocations in  *)
(* progress, the innermost last: the command and, for a composite, the     *)
(* position of its for loop, with ret set once the loop has hit `return`.  *)
(***************************************************************************)
Running == call.op = "running"

Frame(c) == [cmd |-> c, pos |-> 1, ret |-> FALSE]

Top == call.stack[Len(call.stack)]

\* What a receiver operation can end with: success, a failure the device
\* reports, or the timeout of a handshake read that saw no token.
TimeoutMsg   == "timeout"
LeafOutcomes == {[ok |-> TRUE, msg |-> "done"]}
                    \cup [ok : {FALSE}, msg : FailMsgs \cup {TimeoutMsg}]

\* The loop going back to the same sub-command after it failed.
AfterSub_retry(f, failed) ==
    IF failed THEN f ELSE [f EXCEPT !.pos = @ + 1]

\* The for loop after command.execute() has returned: `return` when the
\* sub-command was not successful, the next position otherwise.
AfterSub(f, failed) ==
    IF failed THEN [f EXCEPT !.ret = TRUE] ELSE [f EXCEPT !.pos = @ + 1]

\* The innermost invocation, of command c, returns with c's flag w and
\* message m; the loop that called it copies both and goes on or returns.
\* The outermost invocation returns to the caller.
ReturnFrom(c, w, m) ==
    \E rest \in {SubSeq(call.stack, 1, Len(call.stack) - 1)} :
        /\ phase' = [phase EXCEPT ![c] = "returned"]
        /\ IF rest = <<>>
           THEN /\ was_successful' = [was_successful EXCEPT ![c] = w]
                /\ result_message' = [result_message EXCEPT ![c] = m]
                /\ call' = [call EXCEPT !.op = "execute", !.stack = <<>>]
           ELSE \E k \in {rest[Len(rest)].cmd} :
                /\ was_successful' = [was_successful EXCEPT ![c] = w, ![k] = w]
                /\ result_message' = [result_message EXCEPT ![c] = m, ![k] = m]
                /\ call' = [call EXCEPT !.stack =
                                [rest EXCEPT ![Len(rest)] = AfterSub(@, Not(w))]]

\* The caller calls c.execute().
Begin ==
    \E c \in Commands :
        /\ ~Running
        /\ c \in Composites => has_command_list[c]
        /\ call' = [CommandCall("running", c, "") EXCEPT !.stack = <<Frame(c)>>]
        /\ phase' = [phase EXCEPT ![c] = IF @ = "new" THEN "called" ELSE @]
        /\ UNCHANGED <<devVars, was_successful, result_message,
                       has_command_list, command_list>>

\* A loop calls the execute() of the sub-command at its position.
CallSub ==
    /\ Running
    /\ Top.cmd \in Composites
    /\ ~Top.ret
    /\ Top.pos <= Len(command_list[Top.cmd])
    /\ \E c \in {command_list[Top.cmd][Top.pos]} :
           /\ c \in Composites => has_command_list[c]
           /\ call' = [call EXCEPT !.stack = Append(@, Frame(c))]
           /\ phase' = [phase EXCEPT ![c] = IF @ = "new" THEN "called" ELSE @]
    /\ UNCHANGED <<devVars, was_successful, result_message,
                   has_command_list, command_list>>

\* A concrete command's execute(): its receiver operation ends, by a token
\* or by a timeout, and the command returns.
RunLeaf ==
    /\ Running
    /\ Top.cmd \in Leaves
    /\ \E o \in LeafOutcomes :
           ReturnFrom(Top.cmd, IF o.ok THEN PyTrue ELSE PyFalse,
                      IF o.ok THEN OkMsg[Top.cmd] ELSE o.msg)
    /\ UNCHANGED <<devVars, has_command_list, command_list>>

\* A composite's execute() returns: its loop is exhausted or has hit `return`.
ReturnComposite ==
    /\ Running
    /\ Top.cmd \in Composites
    /\ Top.ret \/ Top.pos > Len(command_list[Top.cmd])
    /\ ReturnFrom(Top.cmd, was_successful[Top.cmd], result_message[Top.cmd])
    /\ UNCHANGED <<devVars, has_command_list, command_list>>

RunNext ==
    \/ Begin
    \/ CallSub
    \/ RunLeaf
    \/ ReturnComposite

\* The sub-command lists a composite can have been given.
ListsOf(k) ==
    {l \in UNION {[1..n -> Commands] : n \in 0..MaxList} :
        \A i \in 1..Len(l) : CanContain(k, l[i])}

\* Largest delay, in absolute value, a command is constructed with.
MaxDelay == 3

\* Constructor arguments of a concrete command: its class, the receiver's
\* name, the parameters its subclass adds to _params, and the delay, a number
\* or a str.
ClassNames    == {"HeatingStageSetTemp", "HeatingStagePidOn"}
ReceiverNames == {Msg("stage1"), Msg("stage2")}
ExtraParams   ==
    {<<>>,
     <<[key |-> "temperature", value |-> Float(260)]>>,
     <<[key |-> "temperature", value |-> Float(300)]>>,
     <<[key |-> "temperature", value |-> Float(260)], [key |-> "mode", value |-> Msg("fast")]>>}
NameDelays    == {Float(d) : d \in (-MaxDelay)..MaxDelay} \cup {Msg("P1")}

\* Constructing a concrete command and reading its name.
NameOfNew ==
    \E cls \in ClassNames, rn \in ReceiverNames, extra \in ExtraParams, delay \in NameDelays :
    \E params \in {<<[key |-> "receiver_name", value |-> rn]>> \o extra} :
        /\ call' = [NoCall EXCEPT !.op = "name", !.obj = "new",
                                  !.input = [cls |-> cls, params |-> params, delay |-> delay],
                                  !.name = Command_name(cls, params, delay)]
        /\ UNCHANGED <<devVars, cmdVars>>

(***************************************************************************)
(* Specifications.                                                         *)
(***************************************************************************)
\* After construction.  CompositeCommand.__init__ sets _params, _was_successful
\* and _result_message; it does not create _command_list.
Init ==
    /\ ser_is_open \in BOOLEAN
    /\ is_initialized = FALSE
    /\ was_successful = [c \in Commands |-> PyNone]
    /\ result_message = [c \in Commands |-> PyNone]
    /\ has_command_list = [k \in Composites |-> FALSE]
    /\ command_list = [k \in Composites |-> <<>>]
    /\ phase = [c \in Commands |-> "new"]
    /\ call = NoCall

Next ==
    \/ DevNext
    \/ CmdNext

\* The driver.
Spec == Init /\ [][DevNext]_vars

\* The driver and the commands together.
Program == Init /\ [][Next]_vars

\* The commands alone, for composites whose _command_list has been bound to an
\* empty list by their creator.
InitList ==
    /\ ser_is_open = FALSE
    /\ is_initialized = FALSE
    /\ was_successful = [c \in Commands |-> PyNone]
    /\ result_message = [c \in Commands |-> PyNone]
    /\ has_command_list = [k \in Composites |-> TRUE]
    /\ command_list = [k \in Composites |-> <<>>]
    /\ phase = [c \in Commands |-> "new"]
    /\ call = NoCall

SpecList == InitList /\ [][CmdNext]_vars

\* The commands alone, as constructed.
SpecNew == Init /\ [][CmdNext]_vars

\* execute() step by step, on composites whose lists have been built.  A
\* step that can be taken is taken: the one thread runs, and a handshake read
\* ends with a token or with its timeout.
InitRun ==
    /\ ser_is_open = FALSE
    /\ is_initialized = FALSE
    /\ was_successful = [c \in Commands |-> PyNone]
    /\ result_message = [c \in Commands |-> PyNone]
    /\ has_command_list = [k \in Composites |-> TRUE]
    /\ command_list \in [Composites -> UNION {ListsOf(k) : k \in Composites}]
    /\ \A k \in Composites : command_list[k] \in ListsOf(k)
    /\ phase = [c \in Commands |-> "new"]
    /\ call = NoCall

SpecRun ==
    /\ InitRun
    /\ [][RunNext]_vars
    /\ WF_vars(CallSub)
    /\ WF_vars(RunLeaf)
    /\ WF_vars(ReturnComposite)

\* The name of a concrete command, over its constructor arguments.
SpecName == Init /\ [][NameOfNew]_vars

(***************************************************************************)
(* Claims about the HeatingStage driver, checked under Spec.               *)
(***************************************************************************)
OnDevice(ops) == call.obj = "HeatingStage" /\ call.op \in ops

Returned(ok, val) ==
    /\ call.raised = ""
    /\ call.ret.ok = ok
    /\ call.ret.val = val

\* C4: with the connection open and is_initialized false, set_settemp,
\* set_temp and pid_on each return (false, "Heating stage is not
\* initialized.") and write nothing to the connection.
C4_NotInitializedGate ==
    (OnDevice({"set_settemp", "set_temp", "pid_on"}) /\ call.pre_open /\ ~call.pre_init)
        => /\ Returned(FALSE, NotInitMsg)
           /\ call.written = <<>>
           /\ call.shakes = <<>>

C4_Witness ==
    /\ OnDevice({"set_temp"})
    /\ call.pre_open
    /\ ~call.pre_init
    /\ Returned(FALSE, NotInitMsg)

\* C5: after initialize() returns, is_initialized is true exactly when the
\* call returned success, whatever the flag was before; when the set_settemp
\* handshake succeeds and the pid_on handshake fails, initialize() returns
\* (false, pid_on's message) and is_initialized is false.
C5_InitializedIffSuccess ==
    OnDevice({"initialize"})
        => /\ call.raised = ""
           /\ is_initialized <=> call.ret.ok
           /\ (Len(call.shakes) = 2 /\ call.shakes[1].ret.ok /\ ~call.shakes[2].ret.ok)
                  => /\ call.ret = call.shakes[2].ret
                     /\ ~call.ret.ok
                     /\ ~is_initialized

C5_Witness ==
    /\ OnDevice({"initialize"})
    /\ call.pre_init
    /\ Len(call.shakes) = 2
    /\ call.shakes[1].ret.ok
    /\ ~call.shakes[2].ret.ok
    /\ ~is_initialized

\* C6: a device goes from is_initialized false to is_initialized true only
\* through an initialize() call that returns success.
C6_OnlyInitializeInitializes ==
    [][(~is_initialized /\ is_initialized')
          => (call'.op = "initialize" /\ call'.raised = "" /\ call'.ret.ok)]_vars

\* C7: when the connection is not open, every operational method returns a
\* failure reporting that the connection is not open, writes nothing and
\* starts no handshake, whether is_initialized is true or false.
OperationalOps == {"set_settemp", "set_temp", "pid_on", "pid_off", "is_pid_on", "temperature"}

C7_NotOpenFailsWithoutIO ==
    (OnDevice(OperationalOps) /\ ~call.pre_open)
        => /\ Returned(FALSE, NotOpenMsg)
           /\ call.written = <<>>
           /\ call.shakes = <<>>

C7_Witness ==
    /\ OnDevice({"is_pid_on"})
    /\ ~call.pre_open
    /\ call.pre_init
    /\ Returned(FALSE, NotOpenMsg)

\* C8: every HeatingStage operation ends by returning a (success flag,
\* message-or-value) pair, whatever the handshake outcome and the payload;
\* none ends in a raised error.
C8_NeverRaises ==
    call.obj = "HeatingStage" => call.raised = ""

\* C9: pid_off(), with the connection open, writes the ">pidoff" line and
\* returns the handshake result whether is_initialized is true or false, and
\* leaves is_initialized unchanged.
C9_PidOffFromAnyState ==
    (OnDevice({"pid_off"}) /\ call.pre_open)
        => /\ call.raised = ""
           /\ call.written = <<Line(">pidoff", NoArg)>>
           /\ Len(call.shakes) = 1
           /\ call.ret = call.shakes[1].ret
           /\ is_initialized = call.pre_init

C9_Witness ==
    /\ OnDevice({"pid_off"})
    /\ call.pre_open
    /\ ~call.pre_init
    /\ call.written = <<Line(">pidoff", NoArg)>>
    /\ call.ret.ok

\* C10: a handshake returns success only if an acknowledgment was received
\* within ack_timeout and, after it, a success token within succ_timeout; with
\* the acknowledgment missing or invalid it fails without waiting for the
\* completion token; with the completion token signalling failure or timing
\* out it fails; the completion wait never starts before the acknowledgment
\* has been received.
AckReceived(h)  == h.resp.ack = "ack" /\ h.resp.ackDelay <= h.ack_timeout
SuccReceived(h) == h.resp.done = "succ" /\ h.resp.doneDelay <= h.succ_timeout

\* Position of event e in the reads of h, 0 when absent.
EventPos(h, e) ==
    IF \E i \in 1..Len(h.events) : h.events[i] = e
    THEN CHOOSE i \in 1..Len(h.events) : h.events[i] = e
    ELSE 0

C10_HandshakeOrder ==
    \A n \in 1..Len(call.shakes) :
        LET h == call.shakes[n]
        IN  /\ h.ret.ok => (AckReceived(h) /\ SuccReceived(h))
            /\ ~AckReceived(h) => (~h.ret.ok /\ EventPos(h, "wait_done") = 0)
            /\ (AckReceived(h) /\ ~SuccReceived(h)) => ~h.ret.ok
            /\ EventPos(h, "wait_done") > 0
                  => (EventPos(h, "ack") > 0 /\ EventPos(h, "ack") < EventPos(h, "wait_done"))

C10_Witness ==
    /\ OnDevice({"set_temp"})
    /\ Len(call.shakes) = 1
    /\ call.shakes[1].resp.doneDelay = 5
    /\ call.shakes[1].ret.ok
    /\ call.ret.ok

\* C14: is_pid_on and temperature, with the connection open: a failed
\* handshake is returned as it is; a successful handshake whose payload holds
\* no key=value fragment gives (false, missing-field message), a message no
\* handshake failure carries; (true, value) is returned only after a
\* successful handshake whose payload holds a value.
HasValue(t) == \E i \in 1..Len(t) : t[i] = "="

MissingFieldMsg(op) ==
    IF op = "is_pid_on" THEN Msg("Message from device did not contain PID state.")
    ELSE Msg("Message from device did not contain temperature.")

\* The values a failed handshake can return, over every answer and timeout.
HandshakeFailures ==
    {check_ack_succ(a, b, r).ret.val :
        a \in {DefaultAckTimeout}, b \in {DefaultSuccTimeout, HeatingTimeout},
        r \in {x \in Responses : ~check_ack_succ(DefaultAckTimeout, HeatingTimeout, x).ret.ok
                                   \/ x.doneDelay > DefaultSuccTimeout}}

C14_QueryResults ==
    (OnDevice({"is_pid_on", "temperature"}) /\ call.pre_open)
        => /\ Len(call.shakes) = 1
           /\ LET h == call.shakes[1]
              IN  /\ ~h.ret.ok => (call.raised = "" /\ call.ret = h.ret)
                  /\ (h.ret.ok /\ ~HasValue(h.resp.payload))
                         => /\ Returned(FALSE, MissingFieldMsg(call.op))
                            /\ MissingFieldMsg(call.op) \notin HandshakeFailures
                  /\ (call.raised = "" /\ call.ret.ok)
                         => (h.ret.ok /\ HasValue(h.resp.payload))

C14_Witness ==
    /\ OnDevice({"temperature"})
    /\ call.pre_open
    /\ call.shakes[1].ret.ok
    /\ ~HasValue(call.shakes[1].resp.payload)
    /\ Returned(FALSE, MissingFieldMsg("temperature"))

\* C15: initialize() and deinitialize() write the pid line (">pidon",
\* ">pidoff") only after the handshake of the ">set Ts" line has succeeded;
\* when the first step fails, no second line is written and the first step's
\* (false, message) is returned; a call writes at most two lines, ">set Ts"
\* first.
ToggleVerb(op) == IF op = "initialize" THEN ">pidon" ELSE ">pidoff"

C15_TwoStepOrder ==
    OnDevice({"initialize", "deinitialize"})
        => /\ Len(call.written) <= 2
           /\ Len(call.shakes) = Len(call.written)
           /\ Len(call.written) >= 1 => call.written[1].verb = ">set Ts"
           /\ Len(call.written) = 2
                 => /\ call.written[2].verb = ToggleVerb(call.op)
                    /\ call.shakes[1].ret.ok
                    /\ AckReceived(call.shakes[1]) /\ SuccReceived(call.shakes[1])
           /\ (Len(call.shakes) >= 1 /\ ~call.shakes[1].ret.ok)
                 => /\ Len(call.written) = 1
                    /\ call.raised = ""
                    /\ call.ret = call.shakes[1].ret
           /\ Len(call.written) = 0 => (~call.pre_open /\ Returned(FALSE, NotOpenMsg))

C15_Witness ==
    /\ OnDevice({"deinitialize"})
    /\ call.pre_open
    /\ Len(call.written) = 1
    /\ ~call.shakes[1].ret.ok
    /\ call.ret = call.shakes[1].ret

\* C16: after deinitialize(reset_init_flag) returns, is_initialized is false
\* except when the call returned success and reset_init_flag was false, and
\* then it is true; a failed deinitialize() leaves is_initialized false.
C16_DeinitializeFlag ==
    OnDevice({"deinitialize"})
        => /\ call.raised = ""
           /\ is_initialized <=> (call.ret.ok /\ ~call.flag)

C16_Witness ==
    /\ OnDevice({"deinitialize"})
    /\ call.pre_init
    /\ ~call.flag
    /\ Len(call.shakes) = 2
    /\ ~call.ret.ok
    /\ ~is_initialized

\* C17: in no call made while is_initialized is false, other than
\* initialize(), is a ">set Ts", ">set T" or ">pidon" line written.
GuardedVerbs == {">set Ts", ">set T", ">pidon"}

WritesGuarded == \E i \in 1..Len(call.written) : call.written[i].verb \in GuardedVerbs

C17_FlagGatesLines ==
    (call.obj = "HeatingStage" /\ ~call.pre_init /\ call.op # "initialize")
        => ~WritesGuarded

\* The gate as the three operational methods have it: called while
\* is_initialized is false, set_settemp, set_temp and pid_on (and the queries
\* and pid_off) write no guarded line.
C17_FlagGatesOperationalLines ==
    (call.obj = "HeatingStage" /\ ~call.pre_init
        /\ call.op \notin {"initialize", "deinitialize"})
        => ~WritesGuarded

C17_Witness ==
    /\ OnDevice({"set_settemp"})
    /\ call.pre_open
    /\ ~call.pre_init
    /\ call.written = <<>>

(***************************************************************************)
(* Claims about CompositeCommand.execute, checked under SpecList.          *)
(***************************************************************************)
\* The positions one invocation of a composite visited, in order.
Entries(id) == SelectSeq(call.log, LAMBDA e : e.inv = id)

ExecutedComposite == call.op = "execute" /\ call.obj \in Composites /\ call.raised = ""

\* The last composite to return is the one execute() was called on, and what
\* it returned with is its state now.
TopReturn ==
    LET R == call.rets[Len(call.rets)]
    IN  /\ call.rets # <<>>
        /\ R.inv = 1
        /\ R.comp = call.obj
        /\ was_successful[call.obj] = R.was
        /\ result_message[call.obj] = R.msg

\* The visits of invocation R are list positions 1, 2, ... of its composite.
VisitsInOrder(R) ==
    LET T == Entries(R.inv)
        L == command_list[R.comp]
    IN  /\ Len(T) <= Len(L)
        /\ \A j \in 1..Len(T) : T[j].pos = j /\ T[j].cmd = L[j]

RECURSIVE NonEmptyDeep(_)
NonEmptyDeep(c) ==
    \/ c \in Leaves
    \/ /\ command_list[c] # <<>>
       /\ \A i \in 1..Len(command_list[c]) : NonEmptyDeep(command_list[c][i])

RemovedPos(list, hasIndex, index) ==
    IF ~hasIndex THEN Len(list)
    ELSE IF index < 0 THEN Len(list) + index + 1
    ELSE index + 1

C19_FreshCompositeHasEmptyList ==
    (call.obj \in Composites /\ call.pre_list = <<>>)
        => /\ call.raised # "AttributeError"
           /\ call.op = "add_command"
                 => (call.raised = "" /\ Len(command_list[call.obj]) >= 1)
           /\ (call.op = "execute" /\ command_list[call.obj] = <<>>)
                 => (call.raised = "" /\ was_successful[call.obj] = PyNone
                                      /\ result_message[call.obj] = PyNone)
           /\ (call.op = "name" /\ command_list[call.obj] = <<>>)
                 => (call.raised = "" /\ call.name = <<TagPiece>>)
           /\ (call.op = "remove_command" /\ command_list[call.obj] = <<>>)
                 => call.raised = "IndexError"

(***************************************************************************)
(* Claims about Command.name, checked under SpecName.                      *)
(***************************************************************************)
DelayPieces(n) == {i \in 1..Len(n) : n[i].k = "param" /\ n[i].key = "delay"}

NamedNew == call.op = "name" /\ call.obj = "new"

\* C12: for every numeric delay d, negative ones included, the name contains
\* 'delay=' if and only if d is not zero, and then 'delay=d' is its last
\* fragment; with delay 0 the name never contains 'delay='.
C12_DelayShownIffNonzero ==
    (NamedNew /\ ~IsStr(call.input.delay))
        => LET d == call.input.delay.n
               n == call.name
           IN  /\ (DelayPieces(n) # {}) <=> (d # 0)
               /\ DelayPieces(n) # {}
                     => /\ DelayPieces(n) = {Len(n)}
                        /\ n[Len(n)].value = call.input.delay

\* What the getter does: a numeric delay is shown, last, exactly when it is
\* greater than zero.
DelayShownIffPositive ==
    (NamedNew /\ ~IsStr(call.input.delay))
        => LET d == call.input.delay.n
               n == call.name
           IN  /\ (DelayPieces(n) # {}) <=> (d > 0)
               /\ DelayPieces(n) # {}
                     => /\ DelayPieces(n) = {Len(n)}
                        /\ n[Len(n)].value = call.input.delay

====
